---- MODULE Spec2Model ----
(***************************************************************************)
(* Frame tap bridge of ViroCore (VROFrameTapListener): the native object   *)
(* that hands every ARCore camera frame to one Java FrameTapListener.      *)
(*                                                                         *)
(* The model follows VROFrameTapListener.cpp (the version that implements  *)
(* the CPU image path): dispatchFrame, createTextureInfo, createCpuImage,  *)
(* the constructor and the destructor, plus the Java value classes         *)
(* TextureInfo and CpuImage that the native code constructs over JNI.      *)
(* Each thread that calls dispatchFrame is a process; a call is cut into   *)
(* steps at the points where another thread can observe it (the atomic     *)
(* flag, the two listener callbacks).                                      *)
(***************************************************************************)
EXTENDS Integers, Sequences, FiniteSets, TLC

(* ------------------------------ bounds --------------------------------- *)

\* Threads that may call dispatchFrame on the one bridge instance.
NumThreads == 2
\* Frames the tracking session produces during a run (one dispatchFrame call each).
MaxFrames == 2
\* Texture coordinates of a corner range over 0..MaxCoord.
MaxCoord == 2
\* U and V of a pixel range over ChromaLevels values spread over a byte (and
\* the neutral 128); Y ranges over all of a byte.
ChromaLevels == 12

Threads == 1..NumThreads
Frames == 1..MaxFrames

(* --------------------------- program constants ------------------------- *)

\* frameTimestamp * 1e9
NanosPerSecond == 1000000000
\* AIMAGE_FORMAT_YUV_420_888
AIMAGE_FORMAT_YUV_420_888 == 35
\* _frameCounter % 30
LogEveryFrames == 30

(* ----------------------- the tracking session -------------------------- *)
(* The session is an external collaborator.  What a dispatch decides on     *)
(* (tracking state, loadImageData, image size, image acquisition, image     *)
(* format, JNI object construction) is an input chosen when the code reads  *)
(* it.  What is only copied into a snapshot is a fixed function of the      *)
(* frame.                                                                   *)

TrackingStates == {"Normal", "Limited", "Initializing", "Stopped"}

\* arcore::ImageRetrievalStatus: Success and one failure.
RetrievalStatuses == {"Success", "NotYetAvailable"}

\* getRotatedImageSize() returns floats; a float is modelled as a number of
\* half pixels, so that the (jint) cast has something to truncate.
ImageSizeHalves == {-3, 0, 1, 4}

\* Formats acquireCameraImage may deliver: YUV_420_888 and one other.
ImageFormats == {AIMAGE_FORMAT_YUV_420_888, AIMAGE_FORMAT_YUV_420_888 + 1}

\* frame->getTimestamp(): seconds as a fraction <<numerator, denominator>>;
\* frame f is captured f/3 seconds into the session.
FrameTimestamp(f) == <<f, 3>>

\* (jlong)(seconds * 1e9): truncation of num/den * 1e9 (num, den >= 0).
ToTimestampNs(ts) ==
    ts[1] * (NanosPerSecond \div ts[2])
        + (ts[1] * (NanosPerSecond % ts[2])) \div ts[2]

\* (jint) of a float given in half pixels: truncation toward zero.
ToJint(halves) ==
    IF halves >= 0 THEN halves \div 2 ELSE -((-halves) \div 2)

\* The arguments of the dispatchFrame call for frame f.
DispatchArgs(f) ==
    [frame |-> f, cameraTextureId |-> 1, displayRotation |-> f % 4]

(* ------------------------------ state ---------------------------------- *)

VARIABLES
    _enableCpuImages,   \* bool, set by the constructor
    _isProcessing,      \* std::atomic<bool>
    _frameCounter,      \* int, periodic logging
    destroyed,          \* the destructor has run
    listenerAlive,      \* the Java listener object has not been collected
    appHoldsListener,   \* the application still holds a strong reference to it
    pc,                 \* per thread: position inside dispatchFrame
    cur,                \* per thread: locals of the dispatchFrame call in progress
    nextFrame,          \* next frame the session hands out
    trace,              \* listener callbacks, as the listener observes them
    lastReturn,         \* the dispatchFrame call that returned last
    leakedBuffers,      \* rgbaBuffer allocations never freed
    corners,            \* extractTextureTransform called on its own: BL, BR, TL, TR
    outTransform,       \* ... and the float[16] it filled, <<>> before the call
    yuv,                \* the conversion loop run on one pixel: Y, U, V read
    rgba,               \* ... and the four bytes it wrote, <<>> before
    isValidCall         \* the isValid call that returned last

vars == <<_enableCpuImages, _isProcessing, _frameCounter, destroyed,
          listenerAlive, appHoldsListener, pc, cur, nextFrame, trace,
          lastReturn, leakedBuffers, corners, outTransform, yuv, rgba,
          isValidCall>>

\* A null jobject.
NullObj == [null |-> TRUE]

\* Locals of a dispatchFrame call that has not started.
IdleCall ==
    [frame |-> 0, claimed |-> FALSE, listenerRef |-> FALSE,
     reads |-> <<>>, logs |-> <<>>,
     tracking |-> "unread", loaded |-> "unread",
     size |-> <<>>,      \* getRotatedImageSize() as reported, in half pixels
     textureInfo |-> NullObj, textureInfoRef |-> FALSE,
     texCalls |-> 0, texRaised |-> FALSE,
     acquire |-> "unread", format |-> 0,
     image |-> "none", imageReleases |-> 0,
     cpuImage |-> NullObj, cpuImageRef |-> FALSE,
     cpuCalls |-> 0, cpuRaised |-> FALSE,
     pendingException |-> FALSE]

NewCall(f) == [IdleCall EXCEPT !.frame = f]

\* The entries logged with ANDROID_LOG_WARN.
Warnings ==
    {"WARN:Frame dropped (previous still processing)",
     "WARN:Listener garbage collected, skipping frame",
     "WARN:Skipping frame - camera not tracking",
     "WARN:Skipping frame - failed to acquire camera image data",
     "WARN:Failed to acquire camera image"}

\* Mutant: entries of level WARN are not written.
LogOnlyErrors(c, msg) ==
    IF msg \in Warnings THEN c ELSE [c EXCEPT !.logs = Append(@, msg)]

\* __android_log_print(level, FRAME_TAP_TAG, msg)
Log(c, msg) == [c EXCEPT !.logs = Append(@, msg)]
Read(c, what) == [c EXCEPT !.reads = Append(@, what)]

NoReturn == [thread |-> 0, outcome |-> "none", call |-> IdleCall]

\* isValid has not been called.
NoIsValid == [called |-> FALSE, result |-> FALSE, strongRef |-> FALSE]

\* The bridge after its constructor.
InitBridge ==
    /\ _enableCpuImages \in BOOLEAN
    /\ _isProcessing = FALSE
    /\ _frameCounter = 0
    /\ destroyed = FALSE
    /\ listenerAlive = TRUE
    /\ appHoldsListener = TRUE
    /\ pc = [t \in Threads |-> "idle"]
    /\ cur = [t \in Threads |-> IdleCall]
    /\ nextFrame = 1
    /\ trace = <<>>
    /\ lastReturn = NoReturn
    /\ leakedBuffers = 0
    /\ isValidCall = NoIsValid

\* No call of extractTextureTransform on its own.
NoCorners == [BL |-> <<>>, BR |-> <<>>, TL |-> <<>>, TR |-> <<>>]

Init ==
    /\ InitBridge
    /\ corners = NoCorners
    /\ outTransform = <<>>
    /\ yuv = <<>>
    /\ rgba = <<>>

(* ------------------------- dispatchFrame ------------------------------- *)

\* return: the call's locals go away; the call is remembered as the last one
\* that returned.  An exception still pending on the thread goes with it to
\* the caller.
Return(t, c, outcome) ==
    /\ pc' = [pc EXCEPT ![t] = "idle"]
    /\ cur' = [cur EXCEPT ![t] = IdleCall]
    /\ lastReturn' = [thread |-> t, outcome |-> outcome, call |-> c]

\* Continue the call at position p with locals c.
Goto(t, c, p) ==
    /\ pc' = [pc EXCEPT ![t] = p]
    /\ cur' = [cur EXCEPT ![t] = c]
    /\ UNCHANGED lastReturn

\* Mutant: a failed exchange stores the expected value into the flag.
CompareExchangeStoresOnFailure(flag, expected, desired) ==
    [success |-> (flag = expected),
     value |-> IF flag = expected THEN desired ELSE expected]

\* Mutant: the flag is set without looking at its old value.
CompareExchangeIgnoresFlag(flag, expected, desired) ==
    [success |-> TRUE, value |-> desired]

\* std::atomic<bool>::compare_exchange_strong(expected, desired)
CompareExchangeStrong(flag, expected, desired) ==
    [success |-> (flag = expected),
     value |-> IF flag = expected THEN desired ELSE flag]

\* Mutant: a call that fails to claim the flag waits for it.
AfterClaimWaits(t, c, success) ==
    Goto(t, [c EXCEPT !.claimed = success], IF success THEN "resolve" ELSE "spin")

\* Mutant: a frame that fails to claim the flag is kept and dispatched anyway.
AfterClaimQueues(t, c, success) ==
    Goto(t, [c EXCEPT !.claimed = success], "resolve")

\* Mutant: the return after "Frame dropped" is missing.
AfterClaimFallsThrough(t, c, success) ==
    Goto(t,
         IF success
           THEN [c EXCEPT !.claimed = TRUE]
           ELSE Log(c, "WARN:Frame dropped (previous still processing)"),
         "resolve")

\* if (!compare_exchange_strong(...)) { log "Frame dropped"; return; }
AfterClaim(t, c, success) ==
    IF success
      THEN Goto(t, [c EXCEPT !.claimed = TRUE], "resolve")
      ELSE Return(t, Log(c, "WARN:Frame dropped (previous still processing)"), "dropped")

\* Mutant: an early return forgets to clear the flag.
ReleaseForgetsFlag(t, c, outcome) ==
    /\ _isProcessing' = (outcome # "delivered" /\ _isProcessing)
    /\ Return(t, c, outcome)

\* _isProcessing = false; return;
Release(t, c, outcome) ==
    /\ _isProcessing' = FALSE
    /\ Return(t, c, outcome)

\* dispatchFrame, entry: claim the in-flight flag or drop the frame.
TryClaim(t) ==
    /\ pc[t] = "idle"
    /\ ~destroyed
    /\ nextFrame <= MaxFrames
    /\ nextFrame' = nextFrame + 1
    /\ LET cas == CompareExchangeStrong(_isProcessing, FALSE, TRUE)
           c == NewCall(DispatchArgs(nextFrame).frame)
       IN  /\ _isProcessing' = cas.value
           /\ AfterClaim(t, c, cas.success)
    /\ UNCHANGED <<yuv, rgba, isValidCall, corners, outTransform, _enableCpuImages, _frameCounter, destroyed, listenerAlive,
                   appHoldsListener, trace, leakedBuffers>>

\* Mutant: the camera is fetched before the listener is looked at.
ResolveListenerReadsCameraFirst(t) ==
    /\ pc[t] = "resolve"
    /\ Goto(t, [Read(Read(cur[t], "getCamera"), "_listener_j")
                  EXCEPT !.listenerRef = listenerAlive],
            IF listenerAlive THEN "camera" ELSE "cleanup")
    /\ UNCHANGED <<yuv, rgba, isValidCall, corners, outTransform, _enableCpuImages,
                   _isProcessing, _frameCounter, destroyed, listenerAlive,
                   appHoldsListener, nextFrame, trace, leakedBuffers>>

\* Mutant: the local reference is used without the null check.
ResolveOutcomesUnchecked == {TRUE}

\* dispatchFrame: VRO_NEW_LOCAL_REF(_listener_j), the liveness check of the
\* weak reference.  After the destructor deleted the weak reference, using
\* it is undefined: it may resolve or not.
ResolveOutcomes ==
    IF destroyed
      THEN (IF listenerAlive THEN BOOLEAN ELSE {FALSE})
      ELSE {listenerAlive}

ResolveListener(t) ==
    /\ pc[t] = "resolve"
    /\ \E resolved \in ResolveOutcomes :
         IF resolved
           THEN /\ Goto(t, [Read(cur[t], "_listener_j") EXCEPT !.listenerRef = TRUE],
                        "camera")
                /\ UNCHANGED _isProcessing
           ELSE Release(t, Log(Read(cur[t], "_listener_j"),
                               "WARN:Listener garbage collected, skipping frame"),
                        "listenerGone")
    /\ UNCHANGED <<yuv, rgba, isValidCall, corners, outTransform, _enableCpuImages, _frameCounter, destroyed, listenerAlive,
                   appHoldsListener, nextFrame, trace, leakedBuffers>>

\* dispatchFrame: dynamic_pointer_cast<VROARCameraARCore>(frame->getCamera())
GetCamera(t) ==
    /\ pc[t] = "camera"
    /\ \E cameraShared \in BOOLEAN :
         LET c == Read(cur[t], "getCamera")
         IN  IF cameraShared
               THEN /\ Goto(t, c, "createTextureInfo")
                    /\ UNCHANGED _isProcessing
               ELSE Release(t, [Log(c, "ERROR:Failed to get ARCore camera")
                                  EXCEPT !.listenerRef = FALSE],
                            "noCamera")
    /\ UNCHANGED <<yuv, rgba, isValidCall, corners, outTransform, _enableCpuImages, _frameCounter, destroyed, listenerAlive,
                   appHoldsListener, nextFrame, trace, leakedBuffers>>

(* ------------------------ createTextureInfo ---------------------------- *)

\* frame->getBackgroundTexcoords(): the viewport's corners in texture space,
\* upright for odd frames and turned by 180 degrees for even ones.
Vec(x, y) == [x |-> x, y |-> y, z |-> 0]

BackgroundTexcoords(f) ==
    IF f % 2 = 1
      THEN [BL |-> Vec(0, 0), BR |-> Vec(1, 0), TL |-> Vec(0, 1), TR |-> Vec(1, 1)]
      ELSE [BL |-> Vec(1, 1), BR |-> Vec(0, 1), TL |-> Vec(1, 0), TR |-> Vec(0, 0)]

\* Mutant: the horizontal scale is taken from the bottom edge, BR - BL.
ExtractTextureTransformUsesBR(BL, BR, TL, TR) ==
    <<BR.x - BL.x, 0, 0, 0,
      0, TL.y - BL.y, 0, 0,
      0, 0, 1, 0,
      BL.x, BL.y, 0, 1>>

\* Mutant: the offsets are written to the last column's row-major places.
ExtractTextureTransformRowMajor(BL, BR, TL, TR) ==
    <<TR.x - BL.x, 0, 0, BL.x,
      0, TR.y - BL.y, 0, BL.y,
      0, 0, 1, 0,
      0, 0, 0, 1>>

\* extractTextureTransform: outTransform[0..15], column-major, as a sequence
\* (index i of the code is position i + 1).
ExtractTextureTransform(BL, BR, TL, TR) ==
    LET scaleX == TR.x - BL.x
        scaleY == TR.y - BL.y
        offsetX == BL.x
        offsetY == BL.y
    IN  <<scaleX, 0, 0, 0,
          0, scaleY, 0, 0,
          0, 0, 1, 0,
          offsetX, offsetY, 0, 1>>

\* camera->getRotation(), VROMatrix4f::identity(), camera->getImageIntrinsics():
\* values the bridge copies without looking at them.
CameraRotation(f) == <<"rotation", f>>
IdentityMatrix == <<1, 0, 0, 0,  0, 1, 0, 0,  0, 0, 1, 0,  0, 0, 0, 1>>
ImageIntrinsics(f) == [fx |-> <<"fx", f>>, fy |-> <<"fy", f>>,
                       cx |-> <<"cx", f>>, cy |-> <<"cy", f>>]

\* The Java constructor TextureInfo(long, int, int, int, float[], int, int,
\* float, float[], float[], float, float, float, float, int).
TextureInfoCtor(timestampNs, oesTextureId, width, height, texTransform, reserved1, reserved2, reserved3, view, projection, fx, fy, cx, cy, rotation) ==
    [null |-> FALSE,
     timestampNs |-> timestampNs,
     oesTextureId |-> oesTextureId,
     texTransform |-> texTransform,
     textureWidth |-> width,
     textureHeight |-> height,
     viewMatrix |-> view,
     projectionMatrix |-> projection,
     focalLengthX |-> fx,
     focalLengthY |-> fy,
     principalPointX |-> cx,
     principalPointY |-> cy,
     displayRotation |-> rotation]

\* Mutant: only a stopped camera is skipped.
NotTrackingOnlyStopped(tracking) == tracking = "Stopped"

\* camera->getTrackingState() != VROARTrackingState::Normal
NotTracking(tracking) == tracking # "Normal"

\* Mutant: the result of loadImageData is not looked at.
ImageDataMissingIgnored(loadOK) == FALSE

\* !frame->loadImageData()
ImageDataMissing(loadOK) == ~loadOK

\* shouldLog = (_frameCounter == 1 || _frameCounter % 30 == 0)
ShouldLog(counter) == counter = 1 \/ counter % LogEveryFrames = 0

\* Mutant: < instead of <=.
InvalidDimensionsStrict(textureWidth, textureHeight) ==
    textureWidth < 0 \/ textureHeight < 0

\* textureWidth <= 0 || textureHeight <= 0
InvalidDimensions(textureWidth, textureHeight) ==
    textureWidth <= 0 \/ textureHeight <= 0

\* createTextureInfo: the locals c of the calling dispatch after the call, the
\* new value of _frameCounter and the jobject returned.  tracking, loadOK,
\* sizeX, sizeY and ctorOK are what the session and the JVM answer.
CreateTextureInfo(c, counter, args, tracking, loadOK, sizeX, sizeY, ctorOK) ==
    LET c1 == [Read(c, "getTrackingState") EXCEPT !.tracking = tracking]
        c2 == [Read(c1, "loadImageData")
                 EXCEPT !.loaded = IF loadOK THEN "ok" ELSE "fail"]
        timestampNs == ToTimestampNs(FrameTimestamp(args.frame))
        counter2 == counter + 1
        c3 == IF ShouldLog(counter2)
                THEN Log(Read(c2, "getTimestamp"), "DEBUG:[Frame] Timestamp")
                ELSE Read(c2, "getTimestamp")
        textureWidth == ToJint(sizeX)
        textureHeight == ToJint(sizeY)
        c4 == [Read(c3, "getRotatedImageSize")
                 EXCEPT !.size = <<sizeX, sizeY>>]
        texcoords == BackgroundTexcoords(args.frame)
        texTransform == ExtractTextureTransform(texcoords.BL, texcoords.BR,
                                                texcoords.TL, texcoords.TR)
        c5 == Read(Read(Read(c4, "getBackgroundTexcoords"), "getRotation"),
                   "getImageIntrinsics")
        k == ImageIntrinsics(args.frame)
        textureInfo ==
            TextureInfoCtor(timestampNs, args.cameraTextureId,
                            textureWidth, textureHeight, texTransform,
                            0, 0, 0,
                            CameraRotation(args.frame), IdentityMatrix,
                            k.fx, k.fy, k.cx, k.cy, args.displayRotation)
    IN  IF NotTracking(tracking)
          THEN [call |-> Log(c1, "WARN:Skipping frame - camera not tracking"),
                counter |-> counter, result |-> NullObj]
        ELSE IF ImageDataMissing(loadOK)
          THEN [call |-> Log(c2, "WARN:Skipping frame - failed to acquire camera image data"),
                counter |-> counter, result |-> NullObj]
        ELSE IF InvalidDimensions(textureWidth, textureHeight)
          THEN [call |-> Log(c4, "ERROR:Invalid texture dimensions"),
                counter |-> counter2, result |-> NullObj]
        ELSE IF ~ctorOK
          \* NewObject threw: ExceptionCheck, ExceptionDescribe, ExceptionClear
          THEN [call |-> c5, counter |-> counter2, result |-> NullObj]
        ELSE [call |-> IF ShouldLog(counter2)
                         THEN Log(c5, "DEBUG:Created TextureInfo")
                         ELSE c5,
              counter |-> counter2, result |-> textureInfo]

\* What the session and the JVM can answer during one createTextureInfo call.
\* An answer the code does not get to ask for (it returned before) is left at
\* one fixed value.
TextureAnswers ==
    {a \in [tracking : TrackingStates, loadOK : BOOLEAN,
            sizeX : ImageSizeHalves, sizeY : ImageSizeHalves, ctorOK : BOOLEAN] :
        /\ (a.tracking # "Normal" => a.loadOK)
        /\ (~a.loadOK => a.sizeX = 4 /\ a.sizeY = 4)
        /\ (a.tracking # "Normal" => a.sizeX = 4 /\ a.sizeY = 4)
        /\ (InvalidDimensions(ToJint(a.sizeX), ToJint(a.sizeY)) => a.ctorOK)
        /\ (a.tracking # "Normal" \/ ~a.loadOK => a.ctorOK)}

\* Mutant: _frameCounter++ is the first statement of createTextureInfo.
CallCreateTextureInfoCountsAll(t) ==
    /\ pc[t] = "createTextureInfo"
    /\ \E a \in TextureAnswers :
         LET r == CreateTextureInfo(cur[t], _frameCounter, DispatchArgs(cur[t].frame),
                                    a.tracking, a.loadOK, a.sizeX, a.sizeY, a.ctorOK)
         IN  /\ _frameCounter' = _frameCounter + 1
             /\ Goto(t, [r.call EXCEPT !.textureInfo = r.result,
                                       !.textureInfoRef = ~r.result.null],
                     "checkTextureInfo")
    /\ UNCHANGED <<yuv, rgba, isValidCall, corners, outTransform, _enableCpuImages,
                   _isProcessing, destroyed, listenerAlive, appHoldsListener,
                   nextFrame, trace, leakedBuffers>>

\* dispatchFrame: jobject textureInfo = createTextureInfo(...)
CallCreateTextureInfo(t) ==
    /\ pc[t] = "createTextureInfo"
    /\ \E a \in TextureAnswers :
         LET r == CreateTextureInfo(cur[t], _frameCounter, DispatchArgs(cur[t].frame),
                                    a.tracking, a.loadOK, a.sizeX, a.sizeY, a.ctorOK)
         IN  /\ _frameCounter' = r.counter
             /\ Goto(t, [r.call EXCEPT !.textureInfo = r.result,
                                       !.textureInfoRef = ~r.result.null],
                     "checkTextureInfo")
    /\ UNCHANGED <<yuv, rgba, isValidCall, corners, outTransform, _enableCpuImages, _isProcessing, destroyed, listenerAlive,
                   appHoldsListener, nextFrame, trace, leakedBuffers>>

(* ----------------------- the listener callbacks ------------------------ *)

\* What the listener observes of one callback: its entry, and its end by
\* returning or by raising.
Event(cb, phase, c, timestampNs, width, height) ==
    [cb |-> cb, phase |-> phase, frame |-> c.frame,
     timestampNs |-> timestampNs, width |-> width, height |-> height]

TextureEvent(phase, c) ==
    Event("onTextureFrame", phase, c, c.textureInfo.timestampNs,
          c.textureInfo.textureWidth, c.textureInfo.textureHeight)

CpuImageEvent(phase, c) ==
    Event("onCpuImageFrame", phase, c, c.cpuImage.timestampNs,
          c.cpuImage.width, c.cpuImage.height)

\* Mutant: the callback is posted to another thread and the dispatch goes on
\* without waiting for it.
DispatchTexturePosted(t) ==
    /\ pc[t] = "checkTextureInfo"
    /\ ~cur[t].textureInfo.null
    /\ trace' = Append(trace, TextureEvent("enter", cur[t]))
    /\ Goto(t, [cur[t] EXCEPT !.texCalls = @ + 1], "cpuPath")
    /\ UNCHANGED <<yuv, rgba, isValidCall, corners, outTransform, _enableCpuImages, _isProcessing,
                   _frameCounter, destroyed, listenerAlive, appHoldsListener,
                   nextFrame, leakedBuffers>>

\* dispatchFrame: if (!textureInfo) return; else CallVoidMethod(listenerRef,
\* _onTextureFrameMethod, textureInfo) is entered.
DispatchTexture(t) ==
    /\ pc[t] = "checkTextureInfo"
    /\ IF cur[t].textureInfo.null
         THEN /\ Release(t, [Log(cur[t], "ERROR:Failed to create TextureInfo")
                                EXCEPT !.listenerRef = FALSE],
                         "skipped")
              /\ UNCHANGED trace
         ELSE /\ trace' = Append(trace, TextureEvent("enter", cur[t]))
              /\ Goto(t, [cur[t] EXCEPT !.texCalls = @ + 1], "inTexture")
              /\ UNCHANGED _isProcessing
    /\ UNCHANGED <<yuv, rgba, isValidCall, corners, outTransform, _enableCpuImages, _frameCounter, destroyed, listenerAlive,
                   appHoldsListener, nextFrame, leakedBuffers>>

\* Mutant: the exception is logged but not cleared.
AfterCallbackNoClear(c, raised, msg) ==
    IF raised \/ c.pendingException
      THEN [Log(c, msg) EXCEPT !.pendingException = TRUE]
      ELSE c

\* After CallVoidMethod: if (env->ExceptionCheck()) { ExceptionDescribe();
\* ExceptionClear(); log }.  raised is whether the listener threw.
AfterCallback(c, raised, msg) ==
    IF raised \/ c.pendingException
      THEN [Log(c, msg) EXCEPT !.pendingException = FALSE]
      ELSE c

\* Mutant: onTextureFrame is invoked again when it raised.
TextureReturnsRetries(t) ==
    /\ pc[t] = "inTexture"
    /\ \E raised \in BOOLEAN :
         /\ trace' = Append(trace, TextureEvent(IF raised THEN "raise" ELSE "return",
                                                cur[t]))
         /\ Goto(t, AfterCallback([cur[t] EXCEPT !.texRaised = raised], raised,
                                  "ERROR:Exception in onTextureFrame callback"),
                 IF raised /\ cur[t].texCalls < 2 THEN "checkTextureInfo" ELSE "cpuPath")
    /\ UNCHANGED <<yuv, rgba, isValidCall, corners, outTransform, _enableCpuImages, _isProcessing,
                   _frameCounter, destroyed, listenerAlive, appHoldsListener,
                   nextFrame, leakedBuffers>>

\* Mutant: the CPU image path is left out when onTextureFrame raised.
TextureReturnsSkipsCpuOnFault(t) ==
    /\ pc[t] = "inTexture"
    /\ \E raised \in BOOLEAN :
         /\ trace' = Append(trace, TextureEvent(IF raised THEN "raise" ELSE "return",
                                                cur[t]))
         /\ Goto(t, AfterCallback([cur[t] EXCEPT !.texRaised = raised], raised,
                                  "ERROR:Exception in onTextureFrame callback"),
                 IF raised THEN "cleanup" ELSE "cpuPath")
    /\ UNCHANGED <<yuv, rgba, isValidCall, corners, outTransform, _enableCpuImages, _isProcessing,
                   _frameCounter, destroyed, listenerAlive, appHoldsListener,
                   nextFrame, leakedBuffers>>

\* Mutant: the flag is cleared as soon as onTextureFrame is over, before the
\* CPU image path.
TextureReturnsReleasesEarly(t) ==
    /\ pc[t] = "inTexture"
    /\ _isProcessing' = FALSE
    /\ \E raised \in BOOLEAN :
         /\ trace' = Append(trace, TextureEvent(IF raised THEN "raise" ELSE "return",
                                                cur[t]))
         /\ Goto(t, [cur[t] EXCEPT !.texRaised = raised], "cpuPath")
    /\ UNCHANGED <<yuv, rgba, isValidCall, corners, outTransform, _enableCpuImages, _frameCounter, destroyed,
                   listenerAlive, appHoldsListener, nextFrame, leakedBuffers>>

\* onTextureFrame ends, by returning or by raising.
TextureReturns(t) ==
    /\ pc[t] = "inTexture"
    /\ \E raised \in BOOLEAN :
         /\ trace' = Append(trace, TextureEvent(IF raised THEN "raise" ELSE "return",
                                                cur[t]))
         /\ Goto(t, AfterCallback([cur[t] EXCEPT !.texRaised = raised], raised,
                                  "ERROR:Exception in onTextureFrame callback"),
                 "cpuPath")
    /\ UNCHANGED <<yuv, rgba, isValidCall, corners, outTransform, _enableCpuImages, _isProcessing, _frameCounter, destroyed,
                   listenerAlive, appHoldsListener, nextFrame, leakedBuffers>>

(* -------------------------- createCpuImage ----------------------------- *)

\* The native image the session hands out for frame f: its size and strides.
CameraImage(f) ==
    [width |-> 2, height |-> 2, yStride |-> 2, uvStride |-> 2, uvPixelStride |-> 1]

\* NewDirectByteBuffer((void*)data, length): a view of one plane of the native
\* image of frame f; it owns nothing.
PlaneBuffer(f, plane) == [image |-> f, plane |-> plane]

\* The Java constructor CpuImage(long, ByteBuffer, ByteBuffer, ByteBuffer,
\* int, int, int, int, int, float[], float[], float, float, float, float, int).
CpuImageCtor(timestampNs, y, u, v, yStride, uvStride, uvPixelStride, width, height, view, projection, fx, fy, cx, cy, rotation) ==
    [null |-> FALSE,
     timestampNs |-> timestampNs,
     yPlane |-> y,
     uPlane |-> u,
     vPlane |-> v,
     yRowStride |-> yStride,
     uvRowStride |-> uvStride,
     uvPixelStride |-> uvPixelStride,
     width |-> width,
     height |-> height,
     viewMatrix |-> view,
     projectionMatrix |-> projection,
     focalLengthX |-> fx,
     focalLengthY |-> fy,
     principalPointX |-> cx,
     principalPointY |-> cy,
     displayRotation |-> rotation]

\* Mutant: the cast comes before the multiplication, (jlong)seconds * 1e9.
CpuImageTimestampCastFirst(f) ==
    (FrameTimestamp(f)[1] \div FrameTimestamp(f)[2]) * NanosPerSecond

\* jlong timestampNs = (jlong)(frame->getTimestamp() * 1e9), in createCpuImage
CpuImageTimestampNs(f) == ToTimestampNs(FrameTimestamp(f))

\* Mutant: only the pointer is checked, not the status.
AcquireFailedPointerOnly(status, image) == ~image

\* status != arcore::ImageRetrievalStatus::Success || !image
AcquireFailed(status, image) == status # "Success" \/ ~image

\* Mutant: the format is not checked.
UnexpectedFormatIgnored(format) == FALSE

\* format != 35
UnexpectedFormat(format) == format # AIMAGE_FORMAT_YUV_420_888

\* Mutant: the image is not deleted.
ReleaseImageForgotten(c) == c

\* delete image
ReleaseImage(c) ==
    [c EXCEPT !.image = "released", !.imageReleases = @ + 1]

\* createCpuImage: the locals c of the calling dispatch after the call, the
\* number of rgbaBuffer allocations it leaves behind and the jobject returned.
\* status, image (the pointer is not null), format and ctorOK are what the
\* session and the JVM answer.
CreateCpuImage(c, args, status, image, format, ctorOK) ==
    LET f == args.frame
        c1 == [Read(c, "acquireCameraImage")
                 EXCEPT !.acquire = IF status = "Success" /\ image
                                      THEN "Success" ELSE "Failure"]
        c2 == [Read(c1, "getFormat") EXCEPT !.image = "acquired", !.format = format]
        c3 == Read(Read(Read(Read(c2, "getPlaneData"), "getRotation"),
                        "getImageIntrinsics"), "getTimestamp")
        img == CameraImage(f)
        k == ImageIntrinsics(f)
        cpuImage ==
            CpuImageCtor(CpuImageTimestampNs(f),
                         PlaneBuffer(f, 0), PlaneBuffer(f, 1), PlaneBuffer(f, 2),
                         img.yStride, img.uvStride, img.uvPixelStride,
                         img.width, img.height,
                         CameraRotation(f), IdentityMatrix,
                         k.fx, k.fy, k.cx, k.cy, args.displayRotation)
    IN  IF AcquireFailed(status, image)
          THEN [call |-> Log(c1, "WARN:Failed to acquire camera image"),
                leaked |-> 0, result |-> NullObj]
        ELSE IF UnexpectedFormat(format)
          THEN [call |-> ReleaseImage(Log(c2, "ERROR:Unexpected image format")),
                leaked |-> 0, result |-> NullObj]
        ELSE IF ~ctorOK
          \* NewObject threw: nothing checks for the exception here
          THEN [call |-> ReleaseImage([c3 EXCEPT !.pendingException = TRUE]),
                leaked |-> 1, result |-> NullObj]
        ELSE [call |-> ReleaseImage(c3), leaked |-> 1, result |-> cpuImage]

\* What the session and the JVM can answer during one createCpuImage call.
CpuImageAnswers ==
    {a \in [status : RetrievalStatuses, image : BOOLEAN,
            format : ImageFormats, ctorOK : BOOLEAN] :
        /\ (a.status # "Success" \/ ~a.image
              => a.format = AIMAGE_FORMAT_YUV_420_888 /\ a.ctorOK)
        /\ (UnexpectedFormat(a.format) => a.ctorOK)}

\* Mutant: the CPU image path runs whatever the constructor was told.
EnableCpuImagesReadIgnored == {TRUE}

\* if (_enableCpuImages): reading the member of a destroyed object is
\* undefined and may give either value.
EnableCpuImagesRead ==
    IF destroyed THEN BOOLEAN ELSE {_enableCpuImages}

\* dispatchFrame: if (_enableCpuImages) { cpuImage = createCpuImage(...) ...
CallCreateCpuImage(t) ==
    /\ pc[t] = "cpuPath"
    /\ \E enabled \in EnableCpuImagesRead :
         IF enabled
           THEN \E a \in CpuImageAnswers :
                  LET r == CreateCpuImage(cur[t], DispatchArgs(cur[t].frame),
                                          a.status, a.image, a.format, a.ctorOK)
                  IN  /\ leakedBuffers' = leakedBuffers + r.leaked
                      /\ Goto(t, [r.call EXCEPT !.cpuImage = r.result,
                                                !.cpuImageRef = ~r.result.null],
                              "checkCpuImage")
           ELSE /\ Goto(t, cur[t], "cleanup")
                /\ UNCHANGED leakedBuffers
    /\ UNCHANGED <<yuv, rgba, isValidCall, corners, outTransform, _enableCpuImages, _isProcessing, _frameCounter, destroyed,
                   listenerAlive, appHoldsListener, nextFrame, trace>>

\* dispatchFrame: if (cpuImage) CallVoidMethod(listenerRef,
\* _onCpuImageFrameMethod, cpuImage) is entered.
DispatchCpuImage(t) ==
    /\ pc[t] = "checkCpuImage"
    /\ IF cur[t].cpuImage.null
         THEN /\ Goto(t, cur[t], "cleanup")
              /\ UNCHANGED trace
         ELSE /\ trace' = Append(trace, CpuImageEvent("enter", cur[t]))
              /\ Goto(t, [cur[t] EXCEPT !.cpuCalls = @ + 1], "inCpu")
    /\ UNCHANGED <<yuv, rgba, isValidCall, corners, outTransform, _enableCpuImages, _isProcessing, _frameCounter, destroyed,
                   listenerAlive, appHoldsListener, nextFrame, leakedBuffers>>

\* Mutant: an exception raised by onCpuImageFrame unwinds dispatchFrame.
CpuImageReturnsUnwinds(t) ==
    /\ pc[t] = "inCpu"
    /\ \E raised \in BOOLEAN :
         /\ trace' = Append(trace, CpuImageEvent(IF raised THEN "raise" ELSE "return",
                                                 cur[t]))
         /\ IF raised
              THEN Return(t, [cur[t] EXCEPT !.cpuRaised = TRUE,
                                            !.pendingException = TRUE],
                          "delivered")
              ELSE Goto(t, [cur[t] EXCEPT !.cpuImageRef = FALSE], "cleanup")
    /\ UNCHANGED <<yuv, rgba, isValidCall, corners, outTransform, _enableCpuImages, _isProcessing,
                   _frameCounter, destroyed, listenerAlive, appHoldsListener,
                   nextFrame, leakedBuffers>>

\* onCpuImageFrame ends, by returning or by raising; then
\* VRO_DELETE_LOCAL_REF(cpuImage).
CpuImageReturns(t) ==
    /\ pc[t] = "inCpu"
    /\ \E raised \in BOOLEAN :
         /\ trace' = Append(trace, CpuImageEvent(IF raised THEN "raise" ELSE "return",
                                                 cur[t]))
         /\ Goto(t, [AfterCallback([cur[t] EXCEPT !.cpuRaised = raised], raised,
                                   "ERROR:Exception in onCpuImageFrame callback")
                       EXCEPT !.cpuImageRef = FALSE],
                 "cleanup")
    /\ UNCHANGED <<yuv, rgba, isValidCall, corners, outTransform, _enableCpuImages, _isProcessing, _frameCounter, destroyed,
                   listenerAlive, appHoldsListener, nextFrame, leakedBuffers>>

\* Mutant: the final store is an exchange that waits for the flag to be
\* clear before it writes.
CleanupAwaitsFlag(t) ==
    /\ pc[t] = "cleanup"
    /\ ~_isProcessing
    /\ Release(t, [cur[t] EXCEPT !.textureInfoRef = FALSE, !.listenerRef = FALSE],
               "delivered")
    /\ UNCHANGED <<yuv, rgba, isValidCall, corners, outTransform, _enableCpuImages,
                   _frameCounter, destroyed, listenerAlive, appHoldsListener,
                   nextFrame, trace, leakedBuffers>>

\* Mutant: the last store into _isProcessing is missing.
CleanupLeavesFlag(t) ==
    /\ pc[t] = "cleanup"
    /\ Return(t, [cur[t] EXCEPT !.textureInfoRef = FALSE, !.listenerRef = FALSE],
              "delivered")
    /\ UNCHANGED <<yuv, rgba, isValidCall, corners, outTransform, _enableCpuImages, _isProcessing,
                   _frameCounter, destroyed, listenerAlive, appHoldsListener,
                   nextFrame, trace, leakedBuffers>>

\* dispatchFrame, the end: VRO_DELETE_LOCAL_REF(textureInfo),
\* VRO_DELETE_LOCAL_REF(listenerRef), _isProcessing = false.
Cleanup(t) ==
    /\ pc[t] = "cleanup"
    /\ Release(t, [cur[t] EXCEPT !.textureInfoRef = FALSE, !.listenerRef = FALSE],
               "delivered")
    /\ UNCHANGED <<yuv, rgba, isValidCall, corners, outTransform, _enableCpuImages, _frameCounter, destroyed, listenerAlive,
                   appHoldsListener, nextFrame, trace, leakedBuffers>>

(* --------------------- the listener's lifetime ------------------------- *)

\* The application drops its last strong reference to the listener.
AppReleasesListener ==
    /\ appHoldsListener
    /\ appHoldsListener' = FALSE
    /\ UNCHANGED <<yuv, rgba, isValidCall, corners, outTransform, _enableCpuImages, _isProcessing, _frameCounter, destroyed,
                   listenerAlive, pc, cur, nextFrame, trace, lastReturn,
                   leakedBuffers>>

\* Mutant: the reference a dispatch takes is a weak one too.
ListenerPinnedNever == FALSE

\* Mutant: _listener_j is a strong global reference, held until the destructor.
ListenerPinnedByGlobalRef == ~destroyed

\* The strong references the bridge holds on the listener: _listener_j is a
\* weak global reference (VRO_NEW_WEAK_GLOBAL_REF) and is none; the local
\* reference a dispatch takes from it is one.
ListenerPinnedByBridge == \E t \in Threads : cur[t].listenerRef

\* The collector frees the listener once nothing holds it.
CollectListener ==
    /\ listenerAlive
    /\ ~appHoldsListener
    /\ ~ListenerPinnedByBridge
    /\ listenerAlive' = FALSE
    /\ UNCHANGED <<yuv, rgba, isValidCall, corners, outTransform, _enableCpuImages, _isProcessing, _frameCounter, destroyed,
                   appHoldsListener, pc, cur, nextFrame, trace, lastReturn,
                   leakedBuffers>>

\* ~VROFrameTapListener: deletes the weak reference and the class references;
\* it neither reads nor waits for _isProcessing.
Destroy ==
    /\ ~destroyed
    /\ destroyed' = TRUE
    /\ UNCHANGED <<yuv, rgba, isValidCall, corners, outTransform, _enableCpuImages, _isProcessing, _frameCounter, listenerAlive,
                   appHoldsListener, pc, cur, nextFrame, trace, lastReturn,
                   leakedBuffers>>

(* ------------------ extractTextureTransform on its own ----------------- *)

\* Texture coordinates the session may report for a corner (whole units).
Coords == 0..MaxCoord
CornerVecs == {Vec(x, y) : x, y \in Coords}
CornerInputs == [BL : CornerVecs, BR : CornerVecs, TL : CornerVecs, TR : CornerVecs]

\* Any four corners, the bridge otherwise as constructed.
InitTransform ==
    /\ InitBridge
    /\ corners \in CornerInputs
    /\ outTransform = <<>>
    /\ yuv = <<>>
    /\ rgba = <<>>

\* extractTextureTransform(BL, BR, TL, TR, outTransform)
CallExtractTextureTransform ==
    /\ outTransform = <<>>
    /\ outTransform' = ExtractTextureTransform(corners.BL, corners.BR,
                                               corners.TL, corners.TR)
    /\ UNCHANGED <<yuv, rgba, isValidCall, corners, _enableCpuImages,
                   _isProcessing, _frameCounter, destroyed, listenerAlive, appHoldsListener, pc, cur,
                   nextFrame, trace, lastReturn, leakedBuffers>>

SpecTransform == InitTransform /\ [][CallExtractTextureTransform]_vars

(* ---------------------- the conversion loop, one pixel ----------------- *)

\* (x < 0) ? 0 : ((x > 255) ? 255 : x)
Clamp(x) == IF x < 0 THEN 0 ELSE IF x > 255 THEN 255 ELSE x

\* n >> 8 on a signed int: the arithmetic shift, rounding down.
ShiftRight8(n) == IF n >= 0 THEN n \div 256 ELSE -((255 - n) \div 256)

\* The store of an int into a uint8_t.
ToUint8(n) == n % 256

\* Mutant: the clamp is missing, the int is stored into the byte as it is.
YuvToRgbaNoClamp(yValue, uValue, vValue) ==
    LET cc == yValue - 16
        dd == uValue - 128
        ee == vValue - 128
    IN  <<ToUint8(ShiftRight8(298 * cc + 409 * ee + 128)),
          ToUint8(ShiftRight8(298 * cc - 100 * dd - 208 * ee + 128)),
          ToUint8(ShiftRight8(298 * cc + 516 * dd + 128)),
          ToUint8(255)>>

\* The body of the pixel loop in createCpuImage: the four bytes written for
\* one pixel with luma yValue and chroma uValue, vValue (C, D, E of the code
\* are cc, dd, ee).
YuvToRgba(yValue, uValue, vValue) ==
    LET cc == yValue - 16
        dd == uValue - 128
        ee == vValue - 128
        R == ShiftRight8(298 * cc + 409 * ee + 128)
        G == ShiftRight8(298 * cc - 100 * dd - 208 * ee + 128)
        B == ShiftRight8(298 * cc + 516 * dd + 128)
    IN  <<ToUint8(Clamp(R)), ToUint8(Clamp(G)), ToUint8(Clamp(B)), ToUint8(255)>>

\* The bytes a plane may hold: every luma, and chroma at ChromaLevels values
\* from 0 to 255 and at the neutral 128.
ChromaSamples ==
    {(i * 255) \div (ChromaLevels - 1) : i \in 0..(ChromaLevels - 1)} \cup {128}
PixelInputs == (0..255) \X ChromaSamples \X ChromaSamples

\* Any pixel, the bridge otherwise as constructed.
InitKernel ==
    /\ InitBridge
    /\ corners = NoCorners
    /\ outTransform = <<>>
    /\ yuv \in PixelInputs
    /\ rgba = <<>>

\* One turn of the pixel loop.
ConvertPixel ==
    /\ rgba = <<>>
    /\ rgba' = YuvToRgba(yuv[1], yuv[2], yuv[3])
    /\ UNCHANGED <<yuv, isValidCall, corners, outTransform, _enableCpuImages,
                   _isProcessing, _frameCounter, destroyed, listenerAlive,
                   appHoldsListener, pc, cur, nextFrame, trace, lastReturn,
                   leakedBuffers>>

SpecKernel == InitKernel /\ [][ConvertPixel]_vars

(* ------------------------------ isValid -------------------------------- *)

\* Mutant: the null check of the local reference is missing.
IsValidNoNullCheck ==
    /\ ~destroyed
    /\ isValidCall' = [called |-> TRUE, result |-> TRUE, strongRef |-> FALSE]
    /\ UNCHANGED <<yuv, rgba, corners, outTransform, _enableCpuImages,
                   _isProcessing, _frameCounter, destroyed, listenerAlive,
                   appHoldsListener, pc, cur, nextFrame, trace, lastReturn,
                   leakedBuffers>>

\* isValid: strongRef = VRO_NEW_LOCAL_REF(_listener_j); false if it is null,
\* else VRO_DELETE_LOCAL_REF(strongRef) and true.  Any thread may call it.
IsValid ==
    /\ ~destroyed
    /\ \E resolved \in ResolveOutcomes :
         isValidCall' = [called |-> TRUE, result |-> resolved, strongRef |-> FALSE]
    /\ UNCHANGED <<yuv, rgba, corners, outTransform, _enableCpuImages,
                   _isProcessing, _frameCounter, destroyed, listenerAlive,
                   appHoldsListener, pc, cur, nextFrame, trace, lastReturn,
                   leakedBuffers>>

Next ==
    \/ \E t \in Threads :
        \/ TryClaim(t)
        \/ ResolveListener(t)
        \/ GetCamera(t)
        \/ CallCreateTextureInfo(t)
        \/ DispatchTexture(t)
        \/ TextureReturns(t)
        \/ CallCreateCpuImage(t)
        \/ DispatchCpuImage(t)
        \/ CpuImageReturns(t)
        \/ Cleanup(t)
    \/ AppReleasesListener
    \/ CollectListener

Spec == Init /\ [][Next]_vars

\* The bridge with callers of isValid.
NextQuery == Next \/ IsValid

SpecQuery == Init /\ [][NextQuery]_vars

\* A step of thread t inside dispatchFrame, after the claim.
DispatchStep(t) ==
    \/ ResolveListener(t)
    \/ GetCamera(t)
    \/ CallCreateTextureInfo(t)
    \/ DispatchTexture(t)
    \/ TextureReturns(t)
    \/ CallCreateCpuImage(t)
    \/ DispatchCpuImage(t)
    \/ CpuImageReturns(t)
    \/ Cleanup(t)

\* The bridge on threads that keep running, with a listener whose callbacks
\* return: a thread inside dispatchFrame takes its next step eventually.
\* Whether dispatchFrame is called at all is up to the caller.
SpecLive == Spec /\ \A t \in Threads : WF_vars(DispatchStep(t))

\* The bridge with its teardown: the destructor may run at any moment.
NextTeardown == Next \/ Destroy

SpecTeardown == Init /\ [][NextTeardown]_vars

(* ============================ properties =============================== *)

\* A thread is inside one of the listener's callbacks.
InCallback(t) == pc[t] \in {"inTexture", "inCpu"}

\* A thread is inside dispatchFrame holding the claim of the in-flight flag.
HoldsClaim(t) == pc[t] # "idle" /\ cur[t].claimed

\* The dispatchFrame calls the state knows: those in progress and the one that
\* returned last.
KnownCalls ==
    {cur[t] : t \in {u \in Threads : pc[u] # "idle"}}
        \cup (IF lastReturn.thread = 0 THEN {} ELSE {lastReturn.call})

\* Positions of the callback events of frame f in the trace.
EventsOf(f, cb, phases) ==
    {i \in DOMAIN trace :
        trace[i].frame = f /\ trace[i].cb = cb /\ trace[i].phase \in phases}

Ends == {"return", "raise"}

\* C1: no two listener callbacks overlap in time, and at most one dispatch is
\* between a successful claim of the in-flight flag and its release.
C1_CallbacksSerialized ==
    /\ Cardinality({t \in Threads : InCallback(t)}) <= 1
    /\ Cardinality({t \in Threads : HoldsClaim(t)}) <= 1
    /\ \A i \in DOMAIN trace :
         (trace[i].phase = "enter" /\ i < Len(trace))
            => /\ trace[i + 1].phase \in Ends
               /\ trace[i + 1].cb = trace[i].cb
               /\ trace[i + 1].frame = trace[i].frame

\* C1 witness: a thread is inside onCpuImageFrame of one frame while another
\* thread called dispatchFrame with a later frame.
C1_ConcurrentCallDuringCallback ==
    \E t \in Threads :
        /\ pc[t] = "inCpu"
        /\ lastReturn.thread \notin {0, t}
        /\ lastReturn.call.frame > cur[t].frame

\* C2: a dispatchFrame call that fails to claim the flag resolves no
\* listener, reads nothing from the session, builds no snapshot and invokes no
\* callback; it is over at once.
C2_DroppedFrameDoesNothing ==
    /\ \A t \in Threads : pc[t] # "idle" => cur[t].claimed
    /\ \A c \in KnownCalls :
         ~c.claimed =>
            /\ c.reads = <<>>
            /\ ~c.listenerRef
            /\ c.textureInfo = NullObj /\ c.cpuImage = NullObj
            /\ c.texCalls = 0 /\ c.cpuCalls = 0
            /\ \A i \in DOMAIN trace : trace[i].frame # c.frame

\* C2 witness: a call was dropped while another thread is inside
\* onTextureFrame.
C2_DroppedWhileInFlight ==
    /\ lastReturn.outcome = "dropped"
    /\ \E t \in Threads : pc[t] = "inTexture" /\ t # lastReturn.thread

\* C3: once the bridge has been torn down no callback is running and none
\* begins: the teardown returns only after the dispatch in flight is over.
C3_TeardownWaitsForDispatch ==
    destroyed => \A t \in Threads : ~InCallback(t)

\* C4: a dispatchFrame call that claimed the flag has cleared it when it
\* returns, on every path.
C4_ClaimReleasedOnReturn ==
    [][\A t \in Threads :
          (HoldsClaim(t) /\ pc'[t] = "idle") => ~_isProcessing']_vars

\* C4 witness: a call that claimed the flag has returned early (no camera)
\* and the flag is clear.
C4_EarlyReturnReleased ==
    /\ lastReturn.outcome = "noCamera"
    /\ lastReturn.call.claimed
    /\ ~_isProcessing

\* C5: when onTextureFrame raises, no exception stays pending, the failure
\* is logged, the dispatch runs to its normal end (handing no exception to
\* its caller unless the CPU image path left one) and the flag is clear when
\* no dispatch is running, so that the next call claims it.
C5_TextureFaultSwallowed ==
    /\ \A t \in Threads :
         (pc[t] = "cpuPath" /\ cur[t].texRaised) =>
            /\ ~cur[t].pendingException
            /\ cur[t].logs # <<>>
            /\ cur[t].logs[Len(cur[t].logs)] = "ERROR:Exception in onTextureFrame callback"
    /\ \A t \in Threads :
         (pc[t] # "idle" /\ cur[t].texRaised) =>
            pc[t] \in {"cpuPath", "checkCpuImage", "inCpu", "cleanup"}
    /\ (lastReturn.thread # 0 /\ lastReturn.call.texRaised) =>
         /\ lastReturn.outcome = "delivered"
         /\ (lastReturn.call.acquire # "Success" => ~lastReturn.call.pendingException)
         /\ ((\A t \in Threads : pc[t] = "idle") => ~_isProcessing)

\* C5 witness: onTextureFrame raised for one frame and onTextureFrame of a
\* later frame has been entered.
C5_DeliveredAfterFault ==
    \E i, j \in DOMAIN trace :
        /\ i < j
        /\ trace[i].cb = "onTextureFrame" /\ trace[i].phase = "raise"
        /\ trace[j].cb = "onTextureFrame" /\ trace[j].phase = "enter"
        /\ trace[j].frame > trace[i].frame

\* C6: a dispatch that finds the camera's tracking state other than Normal
\* invokes neither callback and acquires no CPU image, with CPU images
\* enabled or not.
C6_NotTrackingNoCallback ==
    \A c \in KnownCalls :
        c.tracking \in TrackingStates \ {"Normal"} =>
            /\ c.texCalls = 0 /\ c.cpuCalls = 0
            /\ c.textureInfo = NullObj
            /\ c.acquire = "unread"
            /\ \A i \in DOMAIN trace : trace[i].frame # c.frame

\* C6 witness: with CPU images enabled, a dispatch that found tracking
\* Limited has returned.
C6_SkippedWhileLimited ==
    /\ _enableCpuImages
    /\ lastReturn.outcome = "skipped"
    /\ lastReturn.call.tracking = "Limited"

\* C7: a dispatch for which the session reports a width or a height that is
\* not positive invokes no onTextureFrame, and every TextureInfo delivered
\* has textureWidth > 0 and textureHeight > 0.  (size is what the session
\* reported, in half pixels.)
C7_PositiveDimensions ==
    /\ \A c \in KnownCalls :
         (c.size # <<>> /\ (c.size[1] <= 0 \/ c.size[2] <= 0)) =>
            /\ c.texCalls = 0
            /\ EventsOf(c.frame, "onTextureFrame", {"enter"}) = {}
    /\ \A i \in DOMAIN trace :
         trace[i].cb = "onTextureFrame" =>
            trace[i].width > 0 /\ trace[i].height > 0

\* C7 witness: a dispatch that read a zero width has returned without a
\* callback.
C7_ZeroWidthSkipped ==
    /\ lastReturn.outcome = "skipped"
    /\ lastReturn.call.size # <<>>
    /\ lastReturn.call.size[1] = 0
    /\ lastReturn.call.size[2] > 0

\* C8: with CPU images enabled, a dispatch whose CPU image acquisition fails
\* has invoked onTextureFrame for the frame and invokes no onCpuImageFrame.
C8_AcquireFailureKeepsTexture ==
    \A c \in KnownCalls :
        c.acquire = "Failure" =>
            /\ c.texCalls = 1
            /\ c.cpuCalls = 0
            /\ c.cpuImage = NullObj
            /\ EventsOf(c.frame, "onTextureFrame", {"enter"}) # {}
            /\ EventsOf(c.frame, "onCpuImageFrame", {"enter"} \cup Ends) = {}

\* C8 witness: a dispatch whose acquisition failed has run to its end after
\* delivering onTextureFrame.
C8_AcquireFailedDelivered ==
    /\ _enableCpuImages
    /\ lastReturn.outcome = "delivered"
    /\ lastReturn.call.acquire = "Failure"
    /\ lastReturn.call.texCalls = 1

\* C9: onCpuImageFrame is invoked at most as often as onTextureFrame, and
\* each onCpuImageFrame carries the timestampNs of the onTextureFrame that
\* preceded it in the same dispatch.
C9_CpuImagePairedWithTexture ==
    /\ Cardinality({i \in DOMAIN trace :
                       trace[i].cb = "onCpuImageFrame" /\ trace[i].phase = "enter"})
         <= Cardinality({i \in DOMAIN trace :
                            trace[i].cb = "onTextureFrame" /\ trace[i].phase = "enter"})
    /\ \A i \in DOMAIN trace :
         (trace[i].cb = "onCpuImageFrame" /\ trace[i].phase = "enter") =>
            \E j \in EventsOf(trace[i].frame, "onTextureFrame", {"enter"}) :
                j < i /\ trace[j].timestampNs = trace[i].timestampNs

\* C9 witness: onCpuImageFrame has been entered for the second frame.
C9_CpuImageDelivered ==
    \E i \in DOMAIN trace :
        /\ trace[i].cb = "onCpuImageFrame"
        /\ trace[i].phase = "enter"
        /\ trace[i].frame > 1

\* C10: onTextureFrame of a frame has been invoked and is over before
\* onCpuImageFrame of that frame is invoked, and the callbacks of two frames
\* do not interleave.
C10_CallbackOrder ==
    /\ \A i \in DOMAIN trace :
         (trace[i].cb = "onCpuImageFrame" /\ trace[i].phase = "enter") =>
            /\ i > 2
            /\ trace[i - 2] = [trace[i - 1] EXCEPT !.phase = "enter"]
            /\ trace[i - 1].cb = "onTextureFrame"
            /\ trace[i - 1].phase \in Ends
            /\ trace[i - 1].frame = trace[i].frame
    /\ \A i, j, k \in DOMAIN trace :
         (i < j /\ j < k /\ trace[i].frame = trace[k].frame) =>
            trace[j].frame = trace[i].frame
    /\ \A t \in Threads :
         pc[t] \in {"inTexture", "cpuPath", "checkCpuImage", "inCpu"} =>
            (trace # <<>> /\ trace[Len(trace)].frame = cur[t].frame)

\* C10 witness: both callbacks of one frame are over and onTextureFrame of
\* the next frame has been entered.
C10_TwoFramesInOrder ==
    /\ Len(trace) >= 5
    /\ trace[3].cb = "onCpuImageFrame"
    /\ trace[4].cb = "onCpuImageFrame"
    /\ trace[5].cb = "onTextureFrame"
    /\ trace[5].frame # trace[1].frame

(* --------------------- native image, threads, lifetime ----------------- *)

\* How often callback cb of frame f has been entered, and has ended.
Entered(f, cb) == Cardinality(EventsOf(f, cb, {"enter"}))
Ended(f, cb) == Cardinality(EventsOf(f, cb, Ends))

AllIdle == \A t \in Threads : pc[t] = "idle"

\* C11: while onCpuImageFrame runs, the native image behind the three plane
\* buffers of its CpuImage has not been released yet; the release comes
\* after the callback is over.
C11_ImageLiveDuringCallback ==
    \A t \in Threads : pc[t] = "inCpu" => cur[t].image = "acquired"

C14_CallbacksOffDispatchThread ==
    \A t \in Threads : ~InCallback(t)

\* C15: a dispatch gets past the resolution of the weak reference only with
\* a live listener in hand; one that finds the reference cleared has read
\* nothing from the session, built no snapshot, invoked no callback, and has
\* cleared the flag when it returns.
C15_UnresolvedListenerSkips ==
    /\ \A t \in Threads :
         pc[t] \notin {"idle", "resolve"} => (cur[t].listenerRef /\ listenerAlive)
    /\ lastReturn.outcome = "listenerGone" =>
         LET c == lastReturn.call
         IN  /\ c.claimed
             /\ c.reads = <<"_listener_j">>
             /\ ~c.listenerRef
             /\ c.tracking = "unread" /\ c.acquire = "unread"
             /\ c.textureInfo = NullObj /\ c.cpuImage = NullObj
             /\ c.texCalls = 0 /\ c.cpuCalls = 0
             /\ ~c.pendingException
             /\ \A i \in DOMAIN trace : trace[i].frame # c.frame
             /\ (AllIdle => ~_isProcessing)

\* C15 witness: after an earlier frame was delivered the listener was
\* collected, and the next dispatch returned without a callback.
C15_GoneAfterDelivery ==
    /\ lastReturn.outcome = "listenerGone"
    /\ ~listenerAlive
    /\ trace # <<>>

C17_ListenerHeldStrongly ==
    ~destroyed => (listenerAlive /\ lastReturn.outcome # "listenerGone")

\* uTexTransform * vec4(x, y, z, w) with the float[16] read column-major.
MatVec(m, v) ==
    <<m[1] * v[1] + m[5] * v[2] + m[9] * v[3] + m[13] * v[4],
      m[2] * v[1] + m[6] * v[2] + m[10] * v[3] + m[14] * v[4],
      m[3] * v[1] + m[7] * v[2] + m[11] * v[3] + m[15] * v[4],
      m[4] * v[1] + m[8] * v[2] + m[12] * v[3] + m[16] * v[4]>>

\* C18: for any four corners the transform maps (x, y, z, 1) to
\* (scaleX*x + offsetX, scaleY*y + offsetY, z, 1) with scaleX = TR.x - BL.x,
\* scaleY = TR.y - BL.y, offsetX = BL.x, offsetY = BL.y; the entries that
\* carry no scale, offset or unit are 0; BL = (0,0), TR = (1,1) gives the
\* identity.
C18_SampleTransform ==
    outTransform # <<>> =>
        LET scaleX == corners.TR.x - corners.BL.x
            scaleY == corners.TR.y - corners.BL.y
            offsetX == corners.BL.x
            offsetY == corners.BL.y
        IN  /\ Len(outTransform) = 16
            /\ \A x, y, z \in Coords :
                 MatVec(outTransform, <<x, y, z, 1>>)
                    = <<scaleX * x + offsetX, scaleY * y + offsetY, z, 1>>
            /\ outTransform[1] = scaleX /\ outTransform[6] = scaleY
            /\ outTransform[13] = offsetX /\ outTransform[14] = offsetY
            /\ outTransform[11] = 1 /\ outTransform[16] = 1
            /\ \A i \in (1..16) \ {1, 6, 11, 13, 14, 16} : outTransform[i] = 0
            /\ (corners.BL = Vec(0, 0) /\ corners.TR = Vec(1, 1))
                  => outTransform = IdentityMatrix

\* C18 witness: the transform has been computed for a flipped viewport with
\* an offset, BL = (1,2) and TR = (0,0).
C18_FlippedCornersTransformed ==
    /\ outTransform # <<>>
    /\ corners.BL = Vec(1, 2)
    /\ corners.TR = Vec(0, 0)
    /\ corners.BR # corners.TL

\* C19: a bridge constructed with CPU images disabled never asks the session
\* for a CPU image, never builds a CpuImage and never invokes
\* onCpuImageFrame.
C19_DisabledNoCpuImage ==
    ~_enableCpuImages =>
        /\ \A c \in KnownCalls :
             /\ c.acquire = "unread" /\ c.image = "none"
             /\ c.cpuImage = NullObj /\ c.cpuCalls = 0
             /\ \A i \in DOMAIN c.reads : c.reads[i] # "acquireCameraImage"
        /\ \A i \in DOMAIN trace : trace[i].cb # "onCpuImageFrame"
        /\ \A t \in Threads : pc[t] \notin {"checkCpuImage", "inCpu"}
        /\ leakedBuffers = 0

\* C19 witness: with CPU images disabled, every frame of the run has been
\* delivered to onTextureFrame.
C19_AllFramesTextureOnly ==
    /\ ~_enableCpuImages
    /\ AllIdle
    /\ \A f \in Frames : Ended(f, "onTextureFrame") = 1

\* C20: when onCpuImageFrame raises, no exception stays pending, the failure
\* is logged, the native image has been released once, the local references
\* to the CpuImage, the TextureInfo and the listener are released, the
\* dispatch returns at its normal end and the flag is clear once no dispatch
\* is running.
C20_CpuImageFaultSwallowed ==
    /\ \A t \in Threads :
         (pc[t] # "idle" /\ cur[t].cpuRaised) =>
            /\ pc[t] = "cleanup"
            /\ ~cur[t].pendingException
            /\ ~cur[t].cpuImageRef
            /\ cur[t].imageReleases = 1
            /\ cur[t].logs[Len(cur[t].logs)] = "ERROR:Exception in onCpuImageFrame callback"
    /\ (lastReturn.thread # 0 /\ lastReturn.call.cpuRaised) =>
         /\ lastReturn.outcome = "delivered"
         /\ ~lastReturn.call.pendingException
         /\ lastReturn.call.imageReleases = 1
         /\ ~lastReturn.call.cpuImageRef
         /\ ~lastReturn.call.textureInfoRef
         /\ ~lastReturn.call.listenerRef
         /\ (AllIdle => ~_isProcessing)

\* C20 witness: a dispatch whose onCpuImageFrame raised has returned and the
\* next frame has been claimed by another call.
C20_ClaimedAfterCpuFault ==
    /\ lastReturn.call.cpuRaised
    /\ \E t \in Threads : HoldsClaim(t) /\ cur[t].frame > lastReturn.call.frame

(* ------------------- failures, logging, frame identity ----------------- *)

\* How often entry msg occurs in the log of call c.
Logged(c, msg) == Cardinality({i \in DOMAIN c.logs : c.logs[i] = msg})

Returned == lastReturn.thread # 0

\* C21: when dispatchFrame returns, no exception is pending on the calling
\* thread, whatever failed inside the dispatch.
C21_NoExceptionEscapes ==
    Returned => ~lastReturn.call.pendingException

\* C22 (as stated): a dispatch that ends in a frame drop, an unresolved
\* listener or a tracking-state skip has logged nothing, and one whose image
\* acquisition failed has logged nothing but faults of the listener.
C22_SkipsAreSilent ==
    Returned =>
        LET c == lastReturn.call
        IN  /\ lastReturn.outcome \in {"dropped", "listenerGone"} => c.logs = <<>>
            /\ c.tracking \in TrackingStates \ {"Normal"} => c.logs = <<>>
            /\ c.acquire = "Failure" => Logged(c, "WARN:Failed to acquire camera image") = 0

\* C22 (amended): faults of the listener are logged exactly when a callback
\* raised, once each; a frame drop and an unresolved listener log exactly one
\* warning, a tracking-state skip logs one warning followed by the error
\* "Failed to create TextureInfo", and a failed acquisition logs one warning.
C22_SkipsLogWarnings ==
    Returned =>
        LET c == lastReturn.call
        IN  /\ Logged(c, "ERROR:Exception in onTextureFrame callback")
                 = IF c.texRaised THEN 1 ELSE 0
            /\ Logged(c, "ERROR:Exception in onCpuImageFrame callback")
                 = IF c.cpuRaised THEN 1 ELSE 0
            /\ lastReturn.outcome = "dropped"
                 => c.logs = <<"WARN:Frame dropped (previous still processing)">>
            /\ lastReturn.outcome = "listenerGone"
                 => c.logs = <<"WARN:Listener garbage collected, skipping frame">>
            /\ c.tracking \in TrackingStates \ {"Normal"}
                 => c.logs = <<"WARN:Skipping frame - camera not tracking",
                               "ERROR:Failed to create TextureInfo">>
            /\ c.acquire = "Failure"
                 => Logged(c, "WARN:Failed to acquire camera image") = 1

\* C22 witness: a frame was dropped while another dispatch was in flight,
\* and the drop is in the log.
C22_DropLogged ==
    /\ lastReturn.outcome = "dropped"
    /\ lastReturn.call.logs # <<>>
    /\ \E t \in Threads : HoldsClaim(t)

\* C23: a thread is inside dispatchFrame only while it holds the claim: a
\* call that finds the flag set is over in the step that finds it so,
\* whatever the dispatch in flight is doing, and such a call can always be
\* made while a callback of the dispatch in flight is running.
C23_DropNeverWaits ==
    /\ [](\A t, u \in Threads :
            (InCallback(t) /\ pc[u] = "idle" /\ nextFrame <= MaxFrames)
               => ENABLED TryClaim(u))
    /\ [][\A u \in Threads :
            (pc[u] = "idle" /\ _isProcessing /\ nextFrame' # nextFrame
                /\ lastReturn'.thread = u /\ lastReturn' # lastReturn)
               => /\ pc'[u] = "idle"
                  /\ lastReturn'.outcome = "dropped"
                  /\ \A t \in Threads \ {u} : pc'[t] = pc[t]]_vars
    /\ [](\A t \in Threads : pc[t] # "idle" => cur[t].claimed /\ _isProcessing)

\* C23 witness: a call was dropped and has returned while another thread is
\* still inside onCpuImageFrame.
C23_DroppedDuringCpuCallback ==
    /\ lastReturn.outcome = "dropped"
    /\ \E t \in Threads : pc[t] = "inCpu" /\ lastReturn.call.frame > cur[t].frame

\* C24: a dispatch whose acquired image is not YUV_420_888 invokes no
\* onCpuImageFrame and builds no CpuImage, has released the image, and its
\* onTextureFrame was invoked once and ended as usual.
C24_UnexpectedFormatSkipsCpu ==
    \A c \in KnownCalls :
        (c.acquire = "Success" /\ c.format # AIMAGE_FORMAT_YUV_420_888) =>
            /\ c.cpuCalls = 0 /\ c.cpuImage = NullObj
            /\ c.image = "released" /\ c.imageReleases = 1
            /\ c.texCalls = 1
            /\ Entered(c.frame, "onTextureFrame") = 1
            /\ Ended(c.frame, "onTextureFrame") = 1
            /\ EventsOf(c.frame, "onCpuImageFrame", {"enter"} \cup Ends) = {}

\* C24 witness: a dispatch that met an unexpected format has run to its
\* normal end, its onTextureFrame having returned normally.
C24_UnexpectedFormatDelivered ==
    /\ lastReturn.outcome = "delivered"
    /\ lastReturn.call.acquire = "Success"
    /\ lastReturn.call.format = AIMAGE_FORMAT_YUV_420_888 + 1
    /\ ~lastReturn.call.texRaised
    /\ EventsOf(lastReturn.call.frame, "onTextureFrame", {"return"}) # {}

\* C25: a dispatch for which loadImageData fails invokes neither callback,
\* builds no snapshot and acquires no CPU image.
C25_LoadFailureSkipsFrame ==
    \A c \in KnownCalls :
        c.loaded = "fail" =>
            /\ c.texCalls = 0 /\ c.cpuCalls = 0
            /\ c.textureInfo = NullObj /\ c.cpuImage = NullObj
            /\ c.acquire = "unread" /\ c.image = "none"
            /\ \A i \in DOMAIN trace : trace[i].frame # c.frame

\* C25 witness: with CPU images enabled, a dispatch whose loadImageData
\* failed has returned.
C25_SkippedOnLoadFailure ==
    /\ _enableCpuImages
    /\ lastReturn.outcome = "skipped"
    /\ lastReturn.call.loaded = "fail"

\* C26: a callback is only ever entered or ended for the frame of a
\* dispatchFrame call that is executing at that moment and holds the claim,
\* with the timestamp of that frame; as every call has a frame of its own, a
\* frame whose call returned without a callback is never delivered later.
C26_OnlyCurrentFrameDelivered ==
    [][Len(trace') > Len(trace) =>
          LET e == trace'[Len(trace')]
          IN  \E t \in Threads :
                /\ pc[t] # "idle" /\ pc'[t] # "idle"
                /\ cur[t].claimed
                /\ cur[t].frame = e.frame
                /\ cur'[t].frame = e.frame
                /\ e.timestampNs = ToTimestampNs(FrameTimestamp(cur[t].frame))
                /\ cur'[t].textureInfo.viewMatrix = CameraRotation(cur[t].frame)
                /\ (Returned => lastReturn.call.frame # e.frame)]_vars

\* C26 witness: the first frame was skipped, and a callback for the second
\* frame is running with nothing of the first in the trace.
C26_DeliveredAfterSkip ==
    /\ lastReturn.outcome = "skipped"
    /\ \E t \in Threads : InCallback(t) /\ cur[t].frame > lastReturn.call.frame
    /\ \A i \in DOMAIN trace : trace[i].frame # lastReturn.call.frame

\* What call c has found: the claim succeeded, the listener resolved, the
\* camera was obtained, tracking is Normal, loadImageData succeeded, width
\* and height (as jint) are positive and the TextureInfo was constructed.
Eligible(c) ==
    /\ c.claimed
    /\ \E i \in DOMAIN c.reads : c.reads[i] = "getCamera"
    /\ \E i \in DOMAIN c.reads : c.reads[i] = "getTrackingState"
    /\ c.tracking = "Normal"
    /\ c.loaded = "ok"
    /\ c.size # <<>>
    /\ ToJint(c.size[1]) > 0 /\ ToJint(c.size[2]) > 0
    /\ ~c.textureInfo.null

\* C27: a dispatchFrame call that has returned invoked onTextureFrame once
\* if it found all of Eligible and never otherwise; a call still running has
\* invoked it once if it is past the check of the TextureInfo, and not yet
\* otherwise.
C27_TextureCallbackExactlyOnce ==
    /\ Returned =>
         /\ lastReturn.call.texCalls = IF Eligible(lastReturn.call) THEN 1 ELSE 0
         /\ Entered(lastReturn.call.frame, "onTextureFrame") = lastReturn.call.texCalls
    /\ \A t \in Threads :
         pc[t] # "idle" =>
            /\ cur[t].texCalls
                 = IF pc[t] \in {"inTexture", "cpuPath", "checkCpuImage", "inCpu", "cleanup"}
                     THEN 1 ELSE 0
            /\ cur[t].texCalls = 1 => Eligible(cur[t])
            /\ Entered(cur[t].frame, "onTextureFrame") = cur[t].texCalls

\* C27 witness: a dispatch with Normal tracking, image data and a valid size
\* has returned without a callback, the TextureInfo not constructed.
C27_SkippedOnConstructionFailure ==
    /\ lastReturn.outcome = "skipped"
    /\ lastReturn.call.tracking = "Normal"
    /\ lastReturn.call.loaded = "ok"
    /\ lastReturn.call.size = <<4, 4>>
    /\ lastReturn.call.texCalls = 0

\* C28: _isProcessing is true exactly when some dispatchFrame call holds the
\* claim; it is true throughout every callback and false when no dispatch is
\* executing.
C28_FlagMeansInFlight ==
    /\ _isProcessing = (\E t \in Threads : HoldsClaim(t))
    /\ \A t \in Threads :
         pc[t] \in {"checkTextureInfo", "inTexture", "cpuPath",
                    "checkCpuImage", "inCpu", "cleanup"} => _isProcessing
    /\ AllIdle => ~_isProcessing

\* C28 witness: every frame of the run has been dispatched, the last one
\* through onCpuImageFrame, and the flag is clear again.
C28_FlagClearAfterRun ==
    /\ AllIdle
    /\ nextFrame > MaxFrames
    /\ lastReturn.outcome = "delivered"
    /\ lastReturn.call.cpuCalls = 1
    /\ ~_isProcessing

\* C29: the step of a dispatchFrame call that fails to claim the flag
\* changes neither the flag, nor the frame counter, nor the references to
\* the listener, nor anything of the dispatch in flight.
C29_DropLeavesStateUnchanged ==
    [][(lastReturn' # lastReturn /\ lastReturn'.outcome = "dropped") =>
          /\ _isProcessing /\ _isProcessing'
          /\ UNCHANGED <<_frameCounter, _enableCpuImages, listenerAlive,
                         appHoldsListener, destroyed, trace, leakedBuffers,
                         pc, cur>>
          /\ ~lastReturn'.call.listenerRef]_vars

\* C29 witness: a call was dropped after the dispatch in flight had counted
\* its frame; the flag is still set and the counter is 1.
C29_DroppedLeavesFlagSet ==
    /\ lastReturn.outcome = "dropped"
    /\ _isProcessing
    /\ _frameCounter = 1

\* C30: with CPU images enabled, a dispatch whose onTextureFrame raised goes
\* through the CPU image path as one whose callback returned: the image is
\* asked for, and if the acquisition succeeds with the expected format and
\* the CpuImage is built, onCpuImageFrame is invoked once for the same frame.
C30_CpuPathAfterTextureFault ==
    \A c \in KnownCalls :
        (c.texRaised /\ _enableCpuImages) =>
            /\ \A t \in Threads :
                 (pc[t] \in {"checkCpuImage", "inCpu", "cleanup"} /\ cur[t] = c)
                    => c.acquire # "unread"
            /\ (Returned /\ lastReturn.call = c) =>
                 /\ c.acquire # "unread"
                 /\ c.cpuCalls = IF c.cpuImage.null THEN 0 ELSE 1
                 /\ Entered(c.frame, "onCpuImageFrame") = c.cpuCalls
                 /\ (c.acquire = "Success" /\ ~UnexpectedFormat(c.format)
                        /\ ~c.pendingException) => c.cpuCalls = 1

\* C30 witness: onTextureFrame raised and onCpuImageFrame of the same frame
\* has been entered right after.
C30_CpuCallbackAfterFault ==
    \E i \in DOMAIN trace :
        /\ i < Len(trace)
        /\ trace[i].cb = "onTextureFrame" /\ trace[i].phase = "raise"
        /\ trace[i + 1].cb = "onCpuImageFrame" /\ trace[i + 1].phase = "enter"
        /\ trace[i + 1].frame = trace[i].frame

(* ------------- termination, read order, references, memory ------------- *)

\* C31: with callbacks that return and threads that keep running, every
\* claim of the in-flight flag is followed by its release and every call of
\* dispatchFrame that is under way comes back to its caller, so the flag is
\* free again and again for a later call to claim.  (A flag that is set
\* leads to a flag that is clear exactly if the flag is clear infinitely
\* often; the same for a thread inside dispatchFrame and outside.)
C31_ClaimLeadsToRelease ==
    /\ []<>(~_isProcessing)
    /\ \A t \in Threads : []<>(pc[t] = "idle")

\* C31 witness: a dispatch delivered its frame and released the flag, and a
\* later call has claimed it and stands in its own callback.
C31_ClaimedAgainAfterRelease ==
    /\ lastReturn.outcome = "delivered"
    /\ \E t \in Threads :
         /\ HoldsClaim(t)
         /\ InCallback(t)
         /\ cur[t].frame > lastReturn.call.frame

\* The reads of the longest dispatch, in the order dispatchFrame,
\* createTextureInfo and createCpuImage make them.
ReadOrder ==
    <<"_listener_j", "getCamera", "getTrackingState", "loadImageData",
      "getTimestamp", "getRotatedImageSize", "getBackgroundTexcoords",
      "getRotation", "getImageIntrinsics", "acquireCameraImage", "getFormat",
      "getPlaneData", "getRotation", "getImageIntrinsics", "getTimestamp">>

HasRead(c, what) == \E i \in DOMAIN c.reads : c.reads[i] = what

\* C32: the reads of a dispatch are a beginning of the fixed order; a call
\* that did not claim the flag reads nothing, and one that did not resolve
\* the listener reads nothing of the frame or camera; loadImageData is
\* asked only with tracking state Normal; the camera image is acquired only
\* after onTextureFrame of the same frame was invoked once and has ended.
C32_ReadsInOrderBehindGuards ==
    \A c \in KnownCalls :
        /\ Len(c.reads) <= Len(ReadOrder)
        /\ c.reads = SubSeq(ReadOrder, 1, Len(c.reads))
        /\ c.reads # <<>> => c.claimed
        /\ Len(c.reads) > 1 =>
             /\ c.claimed
             /\ \A t \in Threads : (pc[t] # "idle" /\ cur[t] = c) => c.listenerRef
             /\ (Returned /\ lastReturn.call = c)
                   => lastReturn.outcome \notin {"dropped", "listenerGone"}
        /\ HasRead(c, "loadImageData") => c.tracking = "Normal"
        /\ HasRead(c, "acquireCameraImage") =>
             /\ c.texCalls = 1
             /\ Entered(c.frame, "onTextureFrame") = 1
             /\ Ended(c.frame, "onTextureFrame") = 1

\* C32 witness: a dispatch that went through both paths has returned with
\* all fifteen reads made.
C32_AllReadsMade ==
    /\ Returned
    /\ lastReturn.call.reads = ReadOrder
    /\ lastReturn.call.cpuCalls = 1

C34_NothingRetained ==
    /\ AllIdle => leakedBuffers = 0
    /\ Returned =>
         /\ ~lastReturn.call.listenerRef
         /\ ~lastReturn.call.textureInfoRef
         /\ ~lastReturn.call.cpuImageRef

\* C35: the sixteen values written are the same whatever BR and TL are, for
\* the BL and TR given.
C35_OnlyBLAndTRMatter ==
    outTransform # <<>> =>
        \A br, tl \in CornerVecs :
            ExtractTextureTransform(corners.BL, br, tl, corners.TR) = outTransform

\* C35 witness: the transform has been computed for corners that are no
\* rectangle: BR and TL fit neither BL nor TR.
C35_SkewedCornersTransformed ==
    /\ outTransform # <<>>
    /\ corners.BR.x # corners.TR.x
    /\ corners.BR.y # corners.BL.y
    /\ corners.TL.x # corners.BL.x
    /\ corners.TL.y # corners.TR.y

(* ------------------ the kernel, isValid, the counter ------------------- *)

\* byte is what the kernel writes for the sum n: n >> 8 held to 0..255.
\* n >> 8 is below 0 exactly for n < 0, above 255 exactly for n >= 256 * 256,
\* and otherwise the r with 256 * r <= n < 256 * (r + 1).
ShiftedAndClamped(n, byte) ==
    IF n < 0 THEN byte = 0
    ELSE IF n >= 256 * 256 THEN byte = 255
    ELSE 256 * byte <= n /\ n < 256 * (byte + 1)

\* C36: for every Y, U, V of a byte the four bytes written are R, G, B in
\* 0..255 and alpha 255, with R, G, B the clamped (298C + 409E + 128) >> 8,
\* (298C - 100D - 208E + 128) >> 8 and (298C + 516D + 128) >> 8 for
\* C = Y - 16, D = U - 128, E = V - 128; with U = V = 128 the three are
\* equal, 0 for Y <= 16 and 255 for Y >= 235.
C36_KernelBT601 ==
    rgba # <<>> =>
        LET cc == yuv[1] - 16
            dd == yuv[2] - 128
            ee == yuv[3] - 128
        IN  /\ Len(rgba) = 4
            /\ \A i \in 1..3 : rgba[i] \in 0..255
            /\ rgba[4] = 255
            /\ ShiftedAndClamped(298 * cc + 409 * ee + 128, rgba[1])
            /\ ShiftedAndClamped(298 * cc - 100 * dd - 208 * ee + 128, rgba[2])
            /\ ShiftedAndClamped(298 * cc + 516 * dd + 128, rgba[3])
            /\ (yuv[2] = 128 /\ yuv[3] = 128) =>
                 /\ rgba[1] = rgba[2] /\ rgba[2] = rgba[3]
                 /\ yuv[1] <= 16 => rgba[1] = 0
                 /\ yuv[1] >= 235 => rgba[1] = 255

\* C36 witness: a pixel of middle luma with U = 0 and V = 255 has been
\* converted; red is cut at 255 and blue at 0.
C36_SaturatedPixelConverted ==
    /\ rgba # <<>>
    /\ yuv = <<128, 0, 255>>
    /\ rgba[1] = 255
    /\ rgba[3] = 0

\* C37: isValid answers true exactly when the listener is alive, keeps no
\* reference, and its step changes nothing of the bridge, of the listener or
\* of a dispatch under way: not the flag, not the counter, no callback
\* event, no position of any thread.
C37_IsValidPureQuery ==
    /\ [](~isValidCall.strongRef)
    /\ [][isValidCall' # isValidCall =>
            /\ isValidCall'.called
            /\ isValidCall'.result = listenerAlive
            /\ UNCHANGED <<_enableCpuImages, _isProcessing, _frameCounter,
                           destroyed, listenerAlive, appHoldsListener, pc, cur,
                           nextFrame, trace, lastReturn, leakedBuffers>>]_vars

\* C37 witness: isValid has answered false, the listener being collected
\* after a delivery, while a dispatch holds the claim and is about to
\* resolve the reference.
C37_AnsweredFalseDuringDispatch ==
    /\ isValidCall.called
    /\ ~isValidCall.result
    /\ trace # <<>>
    /\ _isProcessing
    /\ \E t \in Threads : pc[t] = "resolve"

\* cur'[t] has passed the two first checks of createTextureInfo.
PassedChecks(c) == c.tracking = "Normal" /\ c.loaded = "ok"

\* C38: only the call that holds the claim stands in createTextureInfo, so
\* at most one thread at a time; _frameCounter changes in no other step,
\* and that step adds one when the tracking state is Normal and the image
\* data was loaded, and nothing otherwise.
C38_CounterOnlyUnderClaim ==
    /\ [](/\ Cardinality({t \in Threads : pc[t] = "createTextureInfo"}) <= 1
          /\ \A t \in Threads :
               pc[t] = "createTextureInfo" => (HoldsClaim(t) /\ _isProcessing))
    /\ [][/\ _frameCounter' # _frameCounter =>
               \E t \in Threads :
                   /\ pc[t] = "createTextureInfo"
                   /\ pc'[t] = "checkTextureInfo"
                   /\ HoldsClaim(t)
          /\ \A t \in Threads :
               (pc[t] = "createTextureInfo" /\ pc'[t] = "checkTextureInfo") =>
                   _frameCounter' = _frameCounter +
                       (IF PassedChecks(cur'[t]) THEN 1 ELSE 0)]_vars

\* C38 witness: the first frame was counted, and the second dispatch has
\* come out of createTextureInfo on a camera that is not tracking, the
\* counter still at 1.
C38_SkippedFrameNotCounted ==
    /\ _frameCounter = 1
    /\ \E t \in Threads :
         /\ pc[t] = "checkTextureInfo"
         /\ cur[t].frame = 2
         /\ cur[t].tracking # "Normal"

====
